---- MODULE Spec2Model ----
(***************************************************************************)
(* A model of macroquad-text: the Fonts collection (src/src/lib.rs) with   *)
(* its fallback lookup, its name index, the glyph cache and atlas that     *)
(* every Font owns, and the measure / draw operations.                      *)
(*                                                                         *)
(* Indices are the 0-based usize values of the Rust code; the TLA+         *)
(* sequence `fonts` is 1-based, so the font with index i is fonts[i + 1].  *)
(* Option<usize> is an integer, None being -1.  f32 values are integers.   *)
(***************************************************************************)
EXTENDS Integers, Sequences, FiniteSets, TLC

\* ------------------------------------------------------------------ bounds
\* At most MaxFonts fonts are loaded at a time.
MaxFonts == 2
\* At most MaxGlyphs slot ids are issued over the atlases of the loaded fonts.
MaxGlyphs == 4
\* Texts handed to measure and draw have at most MaxTextLen characters.
MaxTextLen == 2
\* Where no glyph is cached, at most MaxSetFonts fonts are loaded at a time.
MaxSetFonts == 3
\* A ColoredStr that is iterated over has at most MaxComponents components.
MaxComponents == 3

\* ------------------------------------------------------------------ inputs
Names == {"n1", "n2"}
Chars == {"a", "b"}
\* Font byte buffers: two that parse and one that does not.
ValidBytes == {"f1", "f2"}
Bytes == ValidBytes \cup {"bad"}
\* Paths: a file holding f1, a file holding garbage, and no file at all.
Paths == {"p1", "pbad", "missing"}
None == -1

\* The default scale handed on by load_font_from_bytes / load_font_from_file.
DefaultScale == 100
ScaleInputs == {DefaultScale}

EmptyMap == [k \in {} |-> 0]

\* m with key k set to v (HashMap::insert).
Insert(m, k, v) == [x \in DOMAIN m \cup {k} |-> IF x = k THEN v ELSE m[x]]

\* --------------------------------------------------- fontdue (opaque engine)
\* fontdue::Font::lookup_glyph_index: 0 when the font has no glyph for c.
\* f1 has a glyph for "a" only; f2 has glyphs for "a" and "b".
lookup_glyph_index(font, c) ==
  CASE font.bytes = "f1" /\ c = "a" -> 1
    [] font.bytes = "f2" /\ c = "a" -> 1
    [] font.bytes = "f2" /\ c = "b" -> 2
    [] OTHER -> 0

\* FontdueFont::from_bytes(bytes, settings): a font, or a parse error.
from_bytes(bytes, scale) ==
  IF bytes \in ValidBytes
    THEN [ok |-> TRUE, font |-> [bytes |-> bytes, scale |-> scale]]
    ELSE [ok |-> FALSE, font |-> [bytes |-> bytes, scale |-> scale]]

\* misc::read_file: the bytes of the file, or an io error.
read_file(path) ==
  CASE path = "p1" -> [ok |-> TRUE, bytes |-> "f1"]
    [] path = "pbad" -> [ok |-> TRUE, bytes |-> "bad"]
    [] OTHER -> [ok |-> FALSE, bytes |-> "bad"]

\* ------------------------------------------------------------ f32 numbers
\* An f32 is a whole number of 1/Den pixels; F turns an integer into an f32.
Den == 2
F(n) == n * Den

\* f32::MAX (f32::MIN is its negation).
F32_MAX == 1000000

\* A conversion that rounds to the nearest integer.
AsU16_rounding(x) ==
  IF x <= 0 THEN 0
  ELSE IF (2 * x + Den) \div (2 * Den) > 65535 THEN 65535
  ELSE (2 * x + Den) \div (2 * Den)

\* `x as u16` for an f32 x: truncation toward zero, saturating at both ends.
AsU16(x) == IF x <= 0 THEN 0 ELSE IF x \div Den > 65535 THEN 65535 ELSE x \div Den

\* ------------------------------------------------------------------- Atlas
\* The atlas starts with a texture of AtlasInitSize x AtlasInitSize pixels.
AtlasInitSize == 4

\* Atlas::new(mode): the initial texture, no sprite, an empty first shelf.
Atlas_new(mode) ==
  [unique_id |-> 0, sprites |-> EmptyMap, width |-> AtlasInitSize,
   height |-> AtlasInitSize, cursor_x |-> 0, cursor_y |-> 0, shelf_h |-> 0,
   filter |-> mode]

\* Atlas::new_unique_id: the next slot id; ids only ever increase.
new_unique_id(atlas) ==
  [atlas |-> [atlas EXCEPT !.unique_id = @ + 1], id |-> atlas.unique_id + 1]

\* The ids of a sprite map in increasing order.
RECURSIVE SortedIds(_)
SortedIds(ids) ==
  IF ids = {} THEN <<>>
  ELSE LET m == CHOOSE x \in ids : \A y \in ids : x <= y
       IN <<m>> \o SortedIds(ids \ {m})

\* Atlas::cache_sprite(id, image of w x h): shelf placement; a full texture
\* doubles and every sprite placed so far is packed again before the new one.
RECURSIVE cache_sprite(_, _, _, _)
RECURSIVE Repack(_, _, _)
cache_sprite(atlas, id, w, h) ==
  IF atlas.cursor_x + w <= atlas.width /\ h <= atlas.shelf_h
    THEN [atlas EXCEPT
            !.sprites = Insert(@, id, [x |-> atlas.cursor_x, y |-> atlas.cursor_y,
                                       w |-> w, h |-> h]),
            !.cursor_x = @ + w]
  ELSE IF w <= atlas.width /\ atlas.cursor_y + atlas.shelf_h + h <= atlas.height
    THEN [atlas EXCEPT
            !.sprites = Insert(@, id, [x |-> 0, y |-> atlas.cursor_y + atlas.shelf_h,
                                       w |-> w, h |-> h]),
            !.cursor_x = w,
            !.cursor_y = atlas.cursor_y + atlas.shelf_h,
            !.shelf_h = h]
  ELSE LET bigger == [atlas EXCEPT !.width = 2 * @, !.height = 2 * @,
                                    !.sprites = EmptyMap, !.cursor_x = 0,
                                    !.cursor_y = 0, !.shelf_h = 0]
           again == Repack(bigger, atlas.sprites, SortedIds(DOMAIN atlas.sprites))
       IN cache_sprite(again, id, w, h)

Repack(atlas, old, ids) ==
  IF ids = <<>> THEN atlas
  ELSE Repack(cache_sprite(atlas, Head(ids), old[Head(ids)].w, old[Head(ids)].h),
              old, Tail(ids))

\* Atlas::get(id): the sprite packed under id, if any; its rect is in f32.
Atlas_get(atlas, id) ==
  IF id \in DOMAIN atlas.sprites
    THEN [some |-> TRUE,
          rect |-> [x |-> F(atlas.sprites[id].x), y |-> F(atlas.sprites[id].y),
                    w |-> F(atlas.sprites[id].w), h |-> F(atlas.sprites[id].h)]]
    ELSE [some |-> FALSE, rect |-> [x |-> 0, y |-> 0, w |-> 0, h |-> 0]]

\* -------------------------------------------------------------------- Font
\* Font::new: the parsed font with an empty atlas and an empty glyph cache.
Font_new(name, font, mode) ==
  [name |-> name, font |-> font, atlas |-> Atlas_new(mode), chars |-> EmptyMap]

\* Font::contains
Font_contains(f, c) == lookup_glyph_index(f.font, c) # 0

\* fontdue's rasterize(c, px): the metrics of the glyph the font has for c,
\* and of its "not defined" glyph (index 0) when it has none.
FontNo(font) == IF font.bytes = "f1" THEN 1 ELSE 2

rasterize(font, c, px) ==
  LET g == lookup_glyph_index(font, c)
  IN [width |-> px, height |-> px + g, xmin |-> g, ymin |-> g - 1,
      advance_width |-> px * (1 + FontNo(font)) + g]

\* A _cache_glyph that returns the id after the one it packed the bitmap under.
Font__cache_glyph_unpacked(f, c, size) ==
  LET matrix == rasterize(f.font, c, size)
      n == new_unique_id(f.atlas)
      packed == cache_sprite(n.atlas, n.id, matrix.width, matrix.height)
  IN [font |-> [f EXCEPT !.atlas = packed],
      info |-> [id |-> n.id + 1, offset_x |-> F(matrix.xmin),
                offset_y |-> F(matrix.ymin), advance |-> F(matrix.advance_width)]]

\* A _cache_glyph that packs the bitmap with its width and height exchanged.
Font__cache_glyph_transposed(f, c, size) ==
  LET matrix == rasterize(f.font, c, size)
      n == new_unique_id(f.atlas)
      packed == cache_sprite(n.atlas, n.id, matrix.height, matrix.width)
  IN [font |-> [f EXCEPT !.atlas = packed],
      info |-> [id |-> n.id, offset_x |-> F(matrix.xmin), offset_y |-> F(matrix.ymin),
                advance |-> F(matrix.advance_width)]]

\* Font::_cache_glyph: rasterize, take a new id, pack the bitmap under it.
\* Gives the font with its atlas updated and the CharacterInfo.
Font__cache_glyph(f, c, size) ==
  LET matrix == rasterize(f.font, c, size)
      n == new_unique_id(f.atlas)
      packed == cache_sprite(n.atlas, n.id, matrix.width, matrix.height)
  IN [font |-> [f EXCEPT !.atlas = packed],
      info |-> [id |-> n.id, offset_x |-> F(matrix.xmin), offset_y |-> F(matrix.ymin),
                advance |-> F(matrix.advance_width)]]

\* A cache_glyph without the presence check: it rasterizes on every call.
Font_cache_glyph_always(f, c, size) ==
  LET r == Font__cache_glyph(f, c, size)
  IN [r.font EXCEPT !.chars = Insert(@, <<c, size>>, r.info)]

\* Font::cache_glyph: nothing when the key is cached already.
Font_cache_glyph(f, c, size) ==
  IF <<c, size>> \notin DOMAIN f.chars
    THEN LET r == Font__cache_glyph(f, c, size)
         IN [r.font EXCEPT !.chars = Insert(@, <<c, size>>, r.info)]
    ELSE f

\* A recache that stops after the first entry.
Font_recache_glyphs_first(f, keys) ==
  IF keys = <<>> THEN f
  ELSE LET k == Head(keys)
           r == Font__cache_glyph(f, k[1], k[2])
       IN [r.font EXCEPT !.chars[k] = r.info]

\* Font::recache_glyphs, the map iterated in the order `keys`.
RECURSIVE Font_recache_glyphs(_, _)
Font_recache_glyphs(f, keys) ==
  IF keys = <<>> THEN f
  ELSE LET k == Head(keys)
           r == Font__cache_glyph(f, k[1], k[2])
       IN Font_recache_glyphs([r.font EXCEPT !.chars[k] = r.info], Tail(keys))

\* The orders in which a HashMap with these keys can be iterated.
Orders(keys) ==
  {s \in [1..Cardinality(keys) -> keys] : \A i, j \in DOMAIN s : i # j => s[i] # s[j]}

\* ------------------------------------------------------------------- Fonts
\* Iterator::position over the fonts from the i-th on: the 0-based index of the
\* first font that contains c, or None.
RECURSIVE Position(_, _, _)
Position(fs, c, i) ==
  IF i > Len(fs) THEN None
  ELSE IF Font_contains(fs[i], c) THEN i - 1
  ELSE Position(fs, c, i + 1)

\* A lookup that keeps the last font that contains c, not the first.
RECURSIVE LastPosition(_, _, _)
LastPosition(fs, c, i) ==
  IF i < 1 THEN None
  ELSE IF Font_contains(fs[i], c) THEN i - 1
  ELSE LastPosition(fs, c, i - 1)

get_index_by_char_last(fs, c) == LastPosition(fs, c, Len(fs))

\* Fonts::get_index_by_char
get_index_by_char(fs, c) == Position(fs, c, 1)

\* Fonts::get_index_by_name
get_index_by_name(idx, name) == IF name \in DOMAIN idx THEN idx[name] ELSE None

\* Fonts::contains
Fonts_contains(fs, c) == \E i \in 1..Len(fs) : Font_contains(fs[i], c)

\* A fallback to the last loaded font, not the first.
get_font_by_char_or_panic_last(fs, c) ==
  LET i == get_index_by_char(fs, c)
  IN IF i # None THEN [panic |-> FALSE, index |-> i]
     ELSE IF Len(fs) > 0 THEN [panic |-> FALSE, index |-> Len(fs) - 1]
     ELSE [panic |-> TRUE, index |-> None]

\* Fonts::get_font_by_char_or_panic, as the index of the font it returns:
\* the first font that contains c, else the first font, else a panic.
get_font_by_char_or_panic(fs, c) ==
  LET i == get_index_by_char(fs, c)
  IN IF i # None THEN [panic |-> FALSE, index |-> i]
     ELSE IF Len(fs) > 0 THEN [panic |-> FALSE, index |-> 0]
     ELSE [panic |-> TRUE, index |-> None]

\* A load that enters the name in the index before it parses the bytes.
LoadBytes_early(fs, idx, sm, name, bytes, scale) ==
  LET r == from_bytes(bytes, scale)
  IN IF ~r.ok
       THEN [ret |-> "FontError", fonts |-> fs,
             index_by_name |-> Insert(idx, name, Len(fs))]
       ELSE [ret |-> "Ok",
             fonts |-> Append(fs, Font_new(name, r.font, sm)),
             index_by_name |-> Insert(idx, name, Len(fs))]

\* A load that empties the glyph cache of every font loaded before.
LoadBytes_invalidating(fs, idx, sm, name, bytes, scale) ==
  LET r == from_bytes(bytes, scale)
  IN IF ~r.ok
       THEN [ret |-> "FontError", fonts |-> fs, index_by_name |-> idx]
       ELSE [ret |-> "Ok",
             fonts |-> Append([i \in 1..Len(fs) |-> [fs[i] EXCEPT !.chars = EmptyMap]],
                              Font_new(name, r.font, sm)),
             index_by_name |-> Insert(idx, name, Len(fs))]

\* Fonts::load_font_from_bytes_with_scale on the collection (fs, idx): the
\* parse comes first, and only a parsed font is indexed and pushed.
LoadBytes(fs, idx, sm, name, bytes, scale) ==
  LET r == from_bytes(bytes, scale)
  IN IF ~r.ok
       THEN [ret |-> "FontError", fonts |-> fs, index_by_name |-> idx]
       ELSE [ret |-> "Ok",
             fonts |-> Append(fs, Font_new(name, r.font, sm)),
             index_by_name |-> Insert(idx, name, Len(fs))]

\* Fonts::load_font_from_file_with_scale: read the file, then load its bytes;
\* a parse error comes back as an io error of kind InvalidData.
LoadFile(fs, idx, sm, name, path, scale) ==
  LET f == read_file(path)
      r == LoadBytes(fs, idx, sm, name, f.bytes, scale)
  IN IF ~f.ok
       THEN [ret |-> "IoError", fonts |-> fs, index_by_name |-> idx]
       ELSE IF r.ret # "Ok" THEN [r EXCEPT !.ret = "IoError:InvalidData"]
       ELSE r

\* A rebuilt index that keeps the first font of a name, not the last.
RECURSIVE Reindex_first(_, _, _)
Reindex_first(fs, i, m) ==
  IF i > Len(fs) THEN m
  ELSE Reindex_first(fs, i + 1,
                     IF fs[i].name \in DOMAIN m THEN m ELSE Insert(m, fs[i].name, i - 1))

\* The loop of unload_font_by_index that fills the cleared name index: the
\* fonts from the i-th on are inserted in order, a later one replacing an
\* earlier one of the same name.
RECURSIVE Reindex(_, _, _)
Reindex(fs, i, m) ==
  IF i > Len(fs) THEN m ELSE Reindex(fs, i + 1, Insert(m, fs[i].name, i - 1))

\* Vec::swap_remove(index): the last font takes the place of the removed one.
Remove_swap(fs, index) ==
  IF index + 1 = Len(fs) THEN SubSeq(fs, 1, index)
  ELSE SubSeq([fs EXCEPT ![index + 1] = fs[Len(fs)]], 1, Len(fs) - 1)

\* Vec::remove(index), index in range.
Remove(fs, index) == SubSeq(fs, 1, index) \o SubSeq(fs, index + 2, Len(fs))

\* An unload that removes the font and leaves the name index as it was.
UnloadByIndex_stale(fs, idx, index) ==
  IF Len(fs) <= index
    THEN [fonts |-> fs, index_by_name |-> idx]
    ELSE [fonts |-> Remove(fs, index), index_by_name |-> idx]

\* Fonts::unload_font_by_index on the collection (fs, idx).
UnloadByIndex(fs, idx, index) ==
  IF Len(fs) <= index
    THEN [fonts |-> fs, index_by_name |-> idx]
    ELSE LET rest == Remove(fs, index)
         IN [fonts |-> rest, index_by_name |-> Reindex(rest, 1, EmptyMap)]

\* An unload by name that takes index 0 for a name the index does not have.
UnloadIndex_zero(fs, idx, name) ==
  LET i == get_index_by_name(idx, name) IN IF i # None THEN i ELSE 0

\* An unload by name that takes the last index for a name the index lacks.
UnloadIndex_last(fs, idx, name) ==
  LET i == get_index_by_name(idx, name)
  IN IF i # None THEN i ELSE IF Len(fs) > 0 THEN Len(fs) - 1 ELSE 0

\* The index unload_font_by_name hands to unload_font_by_index:
\* get_index_by_name(name).unwrap_or(fonts.len()).
UnloadIndex(fs, idx, name) ==
  LET i == get_index_by_name(idx, name) IN IF i # None THEN i ELSE Len(fs)

\* Fonts::unload_font_by_name on the collection (fs, idx).
UnloadByName(fs, idx, name) == UnloadByIndex(fs, idx, UnloadIndex(fs, idx, name))

\* A cache_glyph that caches the glyph in the font chosen for c only.
CacheAll_resolved(fs, c, size) ==
  LET r == get_font_by_char_or_panic(fs, c)
  IN IF r.panic THEN fs
     ELSE [fs EXCEPT ![r.index + 1] = Font_cache_glyph(@, c, size)]

\* Fonts::cache_glyph: every loaded font caches the glyph.
CacheAll(fs, c, size) == [i \in 1..Len(fs) |-> Font_cache_glyph(fs[i], c, size)]

\* The slot ids issued so far by the atlases of fs.
RECURSIVE TotalIds(_)
TotalIds(fs) ==
  IF fs = <<>> THEN 0 ELSE Head(fs).atlas.unique_id + TotalIds(Tail(fs))

\* The rasterizations that turn the fonts fs into gs: one per slot id issued,
\* font by font (used for calls that touch each font once).
RECURSIVE NewRasters(_, _, _, _, _)
NewRasters(fs, gs, c, size, i) ==
  IF i > Len(fs) THEN <<>>
  ELSE (IF gs[i].atlas.unique_id > fs[i].atlas.unique_id
          THEN <<<<i - 1, c, size>>>> ELSE <<>>)
       \o NewRasters(fs, gs, c, size, i + 1)

\* ------------------------------------------------------------------ text.rs
\* Components of a ColoredStr; a colour that is absent is "none".
Str(str) == [kind |-> "Str", str |-> str, c |-> "", color |-> "none"]
Char(c) == [kind |-> "Char", str |-> <<>>, c |-> c, color |-> "none"]
Color(color) == [kind |-> "Color", str |-> <<>>, c |-> "", color |-> color]

\* ColoredStr::iter
ColoredStr_iter(components) ==
  [current_color |-> "none", current_chars |-> [some |-> FALSE, s |-> <<>>],
   components |-> components]

\* An iterator that ends with the first string component it exhausts.
RECURSIVE ColorStrIter_next_ending(_)
ColorStrIter_next_ending(it) ==
  IF it.current_chars.some
    THEN IF it.current_chars.s # <<>>
           THEN [some |-> TRUE, c |-> Head(it.current_chars.s),
                 color |-> it.current_color,
                 it |-> [it EXCEPT !.current_chars.s = Tail(@)]]
           ELSE [some |-> FALSE, c |-> "", color |-> "none", it |-> it]
    ELSE IF it.components = <<>>
           THEN [some |-> FALSE, c |-> "", color |-> "none", it |-> it]
           ELSE LET component == Head(it.components)
                    rest == [it EXCEPT !.components = Tail(@)]
                IN CASE component.kind = "Str" ->
                          ColorStrIter_next_ending(
                            [rest EXCEPT !.current_chars =
                                           [some |-> TRUE, s |-> component.str]])
                     [] component.kind = "Char" ->
                          [some |-> TRUE, c |-> component.c,
                           color |-> it.current_color, it |-> rest]
                     [] OTHER ->
                          ColorStrIter_next_ending(
                            [rest EXCEPT !.current_color = component.color])

\* ColorStrIter::next: the next (character, colour) pair and the iterator
\* after it, or none at the end.
RECURSIVE ColorStrIter_next(_)
ColorStrIter_next(it) ==
  IF it.current_chars.some
    THEN IF it.current_chars.s # <<>>
           THEN [some |-> TRUE, c |-> Head(it.current_chars.s),
                 color |-> it.current_color,
                 it |-> [it EXCEPT !.current_chars.s = Tail(@)]]
           ELSE ColorStrIter_next(
                  [it EXCEPT !.current_chars = [some |-> FALSE, s |-> <<>>]])
    ELSE IF it.components = <<>>
           THEN [some |-> FALSE, c |-> "", color |-> "none", it |-> it]
           ELSE LET component == Head(it.components)
                    rest == [it EXCEPT !.components = Tail(@)]
                IN CASE component.kind = "Str" ->
                          ColorStrIter_next(
                            [rest EXCEPT !.current_chars =
                                           [some |-> TRUE, s |-> component.str]])
                     [] component.kind = "Char" ->
                          [some |-> TRUE, c |-> component.c,
                           color |-> it.current_color, it |-> rest]
                     [] OTHER ->
                          ColorStrIter_next(
                            [rest EXCEPT !.current_color = component.color])

\* The pairs <<c, colour>> an iterator yields until it ends.
RECURSIVE Collect(_)
Collect(it) ==
  LET n == ColorStrIter_next(it)
  IN IF n.some THEN <<<<n.c, n.color>>>> \o Collect(n.it) ELSE <<>>

\* text.chars(), as the pairs a loop over it sees (no colour).
Plain(text) == [i \in 1..Len(text) |-> <<text[i], "none">>]

\* -------------------------------------------------------- measure and draw
\* The state of a loop over the characters of a text; stamps[k] is the number
\* of rasterizations the call had made when it emitted its k-th draw command.
LoopStart(fs) ==
  [fonts |-> fs, panic |-> FALSE, rasters |-> <<>>, drawn |-> <<>>,
   stamps |-> <<>>, width |-> 0, min_y |-> F32_MAX, max_y |-> -F32_MAX]

\* A cache shared by the fonts: a font takes the entry another font has
\* stored under the key rather than rasterizing the character itself.
LoopCache_shared(st, i, c, px) ==
  LET holders == {j \in 1..Len(st.fonts) : <<c, px>> \in DOMAIN st.fonts[j].chars}
      j == CHOOSE j \in holders : TRUE
  IN IF <<c, px>> \in DOMAIN st.fonts[i + 1].chars THEN st
     ELSE IF holders # {}
       THEN [st EXCEPT !.fonts[i + 1].chars =
                         Insert(@, <<c, px>>, st.fonts[j].chars[<<c, px>>])]
     ELSE [st EXCEPT !.fonts[i + 1] = Font_cache_glyph(@, c, px),
                     !.rasters = Append(@, <<i, c, px>>)]

\* font.cache_glyph(c, size as u16) for the font of index i, inside a loop.
LoopCache(st, i, c, px) ==
  [st EXCEPT !.fonts[i + 1] = Font_cache_glyph(@, c, px),
             !.rasters = IF <<c, px>> \in DOMAIN st.fonts[i + 1].chars
                           THEN @ ELSE Append(@, <<i, c, px>>)]

\* A measuring loop that skips a character no font can be found for.
RECURSIVE MeasureLoop_skipping(_, _, _)
MeasureLoop_skipping(st, text, size) ==
  IF text = <<>> \/ st.panic THEN st
  ELSE LET c == Head(text)
           r == get_font_by_char_or_panic(st.fonts, c)
       IN IF r.panic THEN MeasureLoop_skipping(st, Tail(text), size)
          ELSE LET cached == LoopCache(st, r.index, c, AsU16(size))
                   font == cached.fonts[r.index + 1]
                   info == font.chars[<<c, AsU16(size)>>]
                   got == Atlas_get(font.atlas, info.id)
                   glyph == got.rect
               IN IF ~got.some THEN [cached EXCEPT !.panic = TRUE]
                  ELSE MeasureLoop_skipping(
                         [cached EXCEPT
                            !.width = @ + info.advance,
                            !.min_y = IF @ > info.offset_y THEN info.offset_y ELSE @,
                            !.max_y = IF @ < glyph.h + info.offset_y
                                        THEN glyph.h + info.offset_y ELSE @],
                         Tail(text), size)

\* The loop of Fonts::measure_text.
RECURSIVE MeasureLoop(_, _, _)
MeasureLoop(st, text, size) ==
  IF text = <<>> \/ st.panic THEN st
  ELSE LET c == Head(text)
           r == get_font_by_char_or_panic(st.fonts, c)
       IN IF r.panic THEN [st EXCEPT !.panic = TRUE]
          ELSE LET cached == LoopCache(st, r.index, c, AsU16(size))
                   font == cached.fonts[r.index + 1]
                   info == font.chars[<<c, AsU16(size)>>]
                   got == Atlas_get(font.atlas, info.id)
                   glyph == got.rect
               IN IF ~got.some THEN [cached EXCEPT !.panic = TRUE]
                  ELSE MeasureLoop(
                         [cached EXCEPT
                            !.width = @ + info.advance,
                            !.min_y = IF @ > info.offset_y THEN info.offset_y ELSE @,
                            !.max_y = IF @ < glyph.h + info.offset_y
                                        THEN glyph.h + info.offset_y ELSE @],
                         Tail(text), size)

\* The loop of Fonts::measure_scaled_text.
RECURSIVE MeasureScaledLoop(_, _, _, _)
MeasureScaledLoop(st, text, size, scale) ==
  IF text = <<>> \/ st.panic THEN st
  ELSE LET c == Head(text)
           r == get_font_by_char_or_panic(st.fonts, c)
       IN IF r.panic THEN [st EXCEPT !.panic = TRUE]
          ELSE LET cached == LoopCache(st, r.index, c, AsU16(size))
                   font == cached.fonts[r.index + 1]
                   info == font.chars[<<c, AsU16(size)>>]
                   got == Atlas_get(font.atlas, info.id)
                   h == got.rect.h * scale
                   offset_y == info.offset_y * scale
               IN IF ~got.some THEN [cached EXCEPT !.panic = TRUE]
                  ELSE MeasureScaledLoop(
                         [cached EXCEPT
                            !.width = @ + info.advance * scale,
                            !.min_y = IF @ > offset_y THEN offset_y ELSE @,
                            !.max_y = IF @ < h + offset_y THEN h + offset_y ELSE @],
                         Tail(text), size, scale)

\* TextDimensions from the state a measuring loop ends in.
Dimensions(st) ==
  [width |-> st.width, height |-> st.max_y - st.min_y, offset_y |-> st.max_y]

\* The first loop of draw_text_ex and draw_colored_text_ex: cache every
\* character of the text in the font chosen for it.
RECURSIVE CacheLoop(_, _, _)
CacheLoop(st, items, params) ==
  IF items = <<>> \/ st.panic THEN st
  ELSE LET c == Head(items)[1]
           r == get_font_by_char_or_panic(st.fonts, c)
       IN IF r.panic THEN [st EXCEPT !.panic = TRUE]
          ELSE CacheLoop(LoopCache(st, r.index, c, AsU16(params.size)),
                         Tail(items), params)

\* A _draw_char that returns the advance of the glyph without the scale.
Fonts__draw_char_unscaled(fs, c, current_width, color, i, params) ==
  LET font == fs[i + 1]
      key == <<c, AsU16(params.size)>>
      info == font.chars[key]
      got == Atlas_get(font.atlas, info.id)
      glyph == got.rect
      w == glyph.w * params.scale
      h == glyph.h * params.scale
      offset_x == info.offset_x * params.scale
      offset_y == info.offset_y * params.scale
      y0 == 0 - h - offset_y + params.y
      y == IF params.draw = "TopLeft" THEN y0 + params.size * params.scale ELSE y0
  IN IF key \notin DOMAIN font.chars
       THEN [panic |-> TRUE, advance |-> 0, cmd |-> <<>>]
     ELSE IF ~got.some
       THEN [panic |-> TRUE, advance |-> 0, cmd |-> <<>>]
     ELSE [panic |-> FALSE, advance |-> info.advance,
           cmd |-> <<[texture |-> i, x |-> offset_x + current_width + params.x,
                      y |-> y, color |-> color, w |-> w, h |-> h,
                      source |-> glyph]>>]

\* A _draw_char that draws from the texture of the first font's atlas.
Fonts__draw_char_first_atlas(fs, c, current_width, color, i, params) ==
  LET font == fs[i + 1]
      key == <<c, AsU16(params.size)>>
      info == font.chars[key]
      got == Atlas_get(font.atlas, info.id)
      glyph == got.rect
      w == glyph.w * params.scale
      h == glyph.h * params.scale
      offset_x == info.offset_x * params.scale
      offset_y == info.offset_y * params.scale
      advance == info.advance * params.scale
      y0 == 0 - h - offset_y + params.y
      y == IF params.draw = "TopLeft" THEN y0 + params.size * params.scale ELSE y0
  IN IF key \notin DOMAIN font.chars
       THEN [panic |-> TRUE, advance |-> 0, cmd |-> <<>>]
     ELSE IF ~got.some
       THEN [panic |-> TRUE, advance |-> 0, cmd |-> <<>>]
     ELSE [panic |-> FALSE, advance |-> advance,
           cmd |-> <<[texture |-> 0, x |-> offset_x + current_width + params.x,
                      y |-> y, color |-> color, w |-> w, h |-> h,
                      source |-> glyph]>>]

\* Fonts::_draw_char with the font of index i: the draw command it emits and
\* the advance it returns; the two lookups panic when they find nothing.
Fonts__draw_char(fs, c, current_width, color, i, params) ==
  LET font == fs[i + 1]
      key == <<c, AsU16(params.size)>>
      info == font.chars[key]
      got == Atlas_get(font.atlas, info.id)
      glyph == got.rect
      w == glyph.w * params.scale
      h == glyph.h * params.scale
      offset_x == info.offset_x * params.scale
      offset_y == info.offset_y * params.scale
      advance == info.advance * params.scale
      y0 == 0 - h - offset_y + params.y
      y == IF params.draw = "TopLeft" THEN y0 + params.size * params.scale ELSE y0
  IN IF key \notin DOMAIN font.chars
       THEN [panic |-> TRUE, advance |-> 0, cmd |-> <<>>]
     ELSE IF ~got.some
       THEN [panic |-> TRUE, advance |-> 0, cmd |-> <<>>]
     ELSE [panic |-> FALSE, advance |-> advance,
           cmd |-> <<[texture |-> i, x |-> offset_x + current_width + params.x,
                      y |-> y, color |-> color, w |-> w, h |-> h,
                      source |-> glyph]>>]

\* A draw loop that tints every character with params.color.
RECURSIVE DrawLoop_untinted(_, _, _)
DrawLoop_untinted(st, items, params) ==
  IF items = <<>> \/ st.panic THEN st
  ELSE LET c == Head(items)[1]
           r == get_font_by_char_or_panic(st.fonts, c)
           d == Fonts__draw_char(st.fonts, c, st.width, params.color, r.index, params)
       IN IF r.panic THEN [st EXCEPT !.panic = TRUE]
          ELSE IF d.panic THEN [st EXCEPT !.panic = TRUE]
          ELSE DrawLoop_untinted([st EXCEPT !.width = @ + d.advance,
                                            !.drawn = @ \o d.cmd,
                                            !.stamps = Append(@, Len(st.rasters))],
                                 Tail(items), params)

\* The second loop of draw_text_ex and draw_colored_text_ex: one draw command
\* per character; a character without colour takes params.color.
RECURSIVE DrawLoop(_, _, _)
DrawLoop(st, items, params) ==
  IF items = <<>> \/ st.panic THEN st
  ELSE LET c == Head(items)[1]
           color == IF Head(items)[2] = "none" THEN params.color ELSE Head(items)[2]
           r == get_font_by_char_or_panic(st.fonts, c)
           d == Fonts__draw_char(st.fonts, c, st.width, color, r.index, params)
       IN IF r.panic THEN [st EXCEPT !.panic = TRUE]
          ELSE IF d.panic THEN [st EXCEPT !.panic = TRUE]
          ELSE DrawLoop([st EXCEPT !.width = @ + d.advance,
                                   !.drawn = @ \o d.cmd,
                                   !.stamps = Append(@, Len(st.rasters))],
                        Tail(items), params)

\* The characters of a sequence of pairs.
CharsOf(items) == [i \in 1..Len(items) |-> items[i][1]]

\* A single loop that caches and draws one character after the other.
RECURSIVE CacheDrawLoop(_, _, _)
CacheDrawLoop(st, items, params) ==
  IF items = <<>> \/ st.panic THEN st
  ELSE LET one == CacheLoop(st, <<Head(items)>>, params)
           two == DrawLoop(one, <<Head(items)>>, params)
       IN CacheDrawLoop(two, Tail(items), params)

DrawText_interleaved(fs, items, params) ==
  LET two == CacheDrawLoop(LoopStart(fs), items, params)
      start == [LoopStart(two.fonts) EXCEPT !.panic = two.panic,
                                            !.rasters = two.rasters,
                                            !.drawn = two.drawn,
                                            !.stamps = two.stamps]
  IN [total_width |-> two.width,
      end |-> MeasureScaledLoop(start, CharsOf(items), params.size, params.scale)]

\* Fonts::draw_text_ex / draw_colored_text_ex over the pairs `items`: the two
\* loops, then measure_scaled_text for the dimensions that are returned.
DrawText(fs, items, params) ==
  LET one == CacheLoop(LoopStart(fs), items, params)
      two == DrawLoop(one, items, params)
      start == [LoopStart(two.fonts) EXCEPT !.panic = two.panic,
                                            !.rasters = two.rasters,
                                            !.drawn = two.drawn,
                                            !.stamps = two.stamps]
  IN [total_width |-> two.width,
      end |-> MeasureScaledLoop(start, CharsOf(items), params.size, params.scale)]

\* ------------------------------------------------------- RefCell borrows
\* The borrows a call takes of the cells `chars` and `atlas` of the font of
\* index i, and the ends of those borrows, in the order they happen.
Borrow(i, cell) == [ev |-> "borrow", font |-> i, cell |-> cell, mut |-> FALSE]
BorrowMut(i, cell) == [ev |-> "borrow", font |-> i, cell |-> cell, mut |-> TRUE]
Drop(i, cell, mut) == [ev |-> "drop", font |-> i, cell |-> cell, mut |-> mut]

\* Font::_cache_glyph: atlas.borrow_mut() for new_unique_id and again for
\* cache_sprite, each a temporary of its statement.
Font__cache_glyph_borrows(i) ==
  <<BorrowMut(i, "atlas"), Drop(i, "atlas", TRUE),
    BorrowMut(i, "atlas"), Drop(i, "atlas", TRUE)>>

\* A cache_glyph whose read borrow of the cache lives until the insert is done.
Font_cache_glyph_borrows_held(f, i, c, size) ==
  IF <<c, size>> \notin DOMAIN f.chars
    THEN <<Borrow(i, "chars")>> \o Font__cache_glyph_borrows(i)
         \o <<BorrowMut(i, "chars"), Drop(i, "chars", TRUE), Drop(i, "chars", FALSE)>>
    ELSE <<Borrow(i, "chars"), Drop(i, "chars", FALSE)>>

\* Font::cache_glyph: chars.borrow() for the test, dropped with the condition;
\* then, for an absent key, _cache_glyph and chars.borrow_mut() for the insert.
Font_cache_glyph_borrows(f, i, c, size) ==
  <<Borrow(i, "chars"), Drop(i, "chars", FALSE)>>
  \o (IF <<c, size>> \notin DOMAIN f.chars
        THEN Font__cache_glyph_borrows(i)
             \o <<BorrowMut(i, "chars"), Drop(i, "chars", TRUE)>>
        ELSE <<>>)

\* n times the borrows of _cache_glyph.
RECURSIVE Repeated(_, _)
Repeated(n, events) == IF n = 0 THEN <<>> ELSE events \o Repeated(n - 1, events)

\* Font::recache_glyphs: chars.borrow_mut() lives over the whole loop, and
\* _cache_glyph runs once per entry.
Font_recache_glyphs_borrows(f, i) ==
  <<BorrowMut(i, "chars")>>
  \o Repeated(Cardinality(DOMAIN f.chars), Font__cache_glyph_borrows(i))
  \o <<Drop(i, "chars", TRUE)>>

\* Fonts::cache_glyph: Font::cache_glyph for the fonts from the k-th on.
RECURSIVE CacheAll_borrows(_, _, _, _)
CacheAll_borrows(fs, c, size, k) ==
  IF k > Len(fs) THEN <<>>
  ELSE Font_cache_glyph_borrows(fs[k], k - 1, c, size)
       \o CacheAll_borrows(fs, c, size, k + 1)

\* The two lookups of a measuring loop: chars.borrow()[..] is copied out and
\* atlas.borrow().get(..) read, each a temporary of its statement.
Lookup_borrows(i) ==
  <<Borrow(i, "chars"), Drop(i, "chars", FALSE),
    Borrow(i, "atlas"), Drop(i, "atlas", FALSE)>>

\* The loop of measure_text and of measure_scaled_text.
RECURSIVE MeasureLoop_borrows(_, _, _)
MeasureLoop_borrows(fs, text, size) ==
  IF text = <<>> THEN <<>>
  ELSE LET c == Head(text)
           r == get_font_by_char_or_panic(fs, c)
           px == AsU16(size)
       IN IF r.panic THEN <<>>
          ELSE Font_cache_glyph_borrows(fs[r.index + 1], r.index, c, px)
               \o Lookup_borrows(r.index)
               \o MeasureLoop_borrows(
                    [fs EXCEPT ![r.index + 1] = Font_cache_glyph(@, c, px)],
                    Tail(text), size)

\* Fonts::_draw_char: `atlas` is atlas.borrow_mut() and `info` a reference into
\* chars.borrow(); both live to the end of the function.
Fonts__draw_char_borrows(i) ==
  <<BorrowMut(i, "atlas"), Borrow(i, "chars"),
    Drop(i, "chars", FALSE), Drop(i, "atlas", TRUE)>>

\* The second loop of draw_text_ex, over characters that are all cached.
RECURSIVE DrawLoop_borrows(_, _)
DrawLoop_borrows(fs, text) ==
  IF text = <<>> THEN <<>>
  ELSE LET r == get_font_by_char_or_panic(fs, Head(text))
       IN IF r.panic THEN <<>>
          ELSE Fonts__draw_char_borrows(r.index) \o DrawLoop_borrows(fs, Tail(text))

\* The first loop of draw_text_ex.
RECURSIVE CacheLoop_borrows(_, _, _)
CacheLoop_borrows(fs, text, px) ==
  IF text = <<>> THEN <<>>
  ELSE LET c == Head(text)
           r == get_font_by_char_or_panic(fs, c)
       IN IF r.panic THEN <<>>
          ELSE Font_cache_glyph_borrows(fs[r.index + 1], r.index, c, px)
               \o CacheLoop_borrows(
                    [fs EXCEPT ![r.index + 1] = Font_cache_glyph(@, c, px)],
                    Tail(text), px)

\* Fonts::draw_text_ex: the two loops, then measure_scaled_text.
DrawText_borrows(fs, text, params) ==
  LET cached == CacheLoop(LoopStart(fs), Plain(text), params).fonts
  IN CacheLoop_borrows(fs, text, AsU16(params.size))
     \o DrawLoop_borrows(cached, text)
     \o MeasureLoop_borrows(cached, text, params.size)

\* Fonts::draw_char
DrawChar_borrows(fs, c, params) ==
  LET r == get_font_by_char_or_panic(fs, c)
  IN IF r.panic THEN <<>>
     ELSE Font_cache_glyph_borrows(fs[r.index + 1], r.index, c, AsU16(params.size))
          \o Fonts__draw_char_borrows(r.index)

\* The last borrow in `live` that a drop ends, 0 when there is none.
LastLive(live, e) ==
  LET same == {k \in 1..Len(live) : /\ live[k].font = e.font
                                    /\ live[k].cell = e.cell
                                    /\ live[k].mut = e.mut}
  IN IF same = {} THEN 0 ELSE CHOOSE k \in same : \A j \in same : j <= k

\* RefCell: borrow() panics while the cell is borrowed mutably, borrow_mut()
\* while it is borrowed at all; dropping a Ref or RefMut ends its borrow.
RefCell_step(b) ==
  LET e == Head(b.pending)
      others == {k \in 1..Len(b.live) : /\ b.live[k].font = e.font
                                        /\ b.live[k].cell = e.cell}
      k == LastLive(b.live, e)
  IN IF e.ev = "drop"
       THEN [b EXCEPT !.pending = Tail(@),
                      !.live = SubSeq(@, 1, k - 1) \o SubSeq(@, k + 1, Len(@))]
     ELSE IF (e.mut /\ others # {}) \/ (\E j \in others : b.live[j].mut)
       THEN [b EXCEPT !.panic = TRUE]
     ELSE [b EXCEPT !.pending = Tail(@),
                    !.live = Append(@, [font |-> e.font, cell |-> e.cell,
                                        mut |-> e.mut])]

VARIABLES
  fonts,          \* Fonts::fonts, the sequence of Font records
  index_by_name,  \* Fonts::index_by_name, a map from name to index
  default_sm,     \* Fonts::default_sm
  call,           \* the last call made on the collection and what it returned
  rasters,        \* the rasterizations of the last call: <<font index, c, size>>
  drawn,          \* the draw commands of the last call
  iter,           \* a ColorStrIter over a ColoredStr
  iterated,       \* the ColoredStr of iter, what iter yielded, whether it ended
  borrows         \* the RefCell borrows of the call: to come, live, a panic

vars ==
  <<fonts, index_by_name, default_sm, call, rasters, drawn, iter, iterated, borrows>>

\* A call record; the fields an operation does not use keep these values.
NoParams == [x |-> 0, y |-> 0, size |-> 0, scale |-> 1, color |-> "none", draw |-> "TopLeft"]
NoDims == [width |-> 0, height |-> 0, offset_y |-> 0]
NoCall ==
  [op |-> "new", name |-> "", arg |-> "", index |-> None, c |-> "", size |-> 0,
   text |-> <<>>, scale |-> 1, params |-> NoParams, ret |-> "Ok", val |-> None,
   dims |-> NoDims, stamps |-> <<>>]

\* Fonts::default(): no font, an empty name index, linear filtering.
Init ==
  /\ fonts = <<>>
  /\ index_by_name = EmptyMap
  /\ default_sm = "Linear"
  /\ call = NoCall
  /\ rasters = <<>>
  /\ drawn = <<>>
  /\ iter = ColoredStr_iter(<<>>)
  /\ iterated = [of |-> <<>>, items |-> <<>>, ended |-> FALSE]
  /\ borrows = [pending |-> <<>>, live |-> <<>>, panic |-> FALSE]

\* The sizes cache_glyph is called with (u16).
PxSizes == {1}

\* ----------------------------------------------------------------- actions
\* fonts.load_font_from_bytes_with_scale(name, bytes, scale)
load_font_from_bytes_with_scale(name, bytes, scale) ==
  LET r == LoadBytes(fonts, index_by_name, default_sm, name, bytes, scale)
  IN /\ fonts' = r.fonts
     /\ index_by_name' = r.index_by_name
     /\ call' = [NoCall EXCEPT !.op = "load_font_from_bytes_with_scale",
                               !.name = name, !.arg = bytes, !.ret = r.ret]
     /\ rasters' = <<>>
     /\ drawn' = <<>>
     /\ UNCHANGED default_sm

\* fonts.load_font_from_bytes(name, bytes)
load_font_from_bytes(name, bytes) ==
  load_font_from_bytes_with_scale(name, bytes, DefaultScale)

\* fonts.load_font_from_file_with_scale(name, path, scale)
load_font_from_file_with_scale(name, path, scale) ==
  LET r == LoadFile(fonts, index_by_name, default_sm, name, path, scale)
  IN /\ fonts' = r.fonts
     /\ index_by_name' = r.index_by_name
     /\ call' = [NoCall EXCEPT !.op = "load_font_from_file_with_scale",
                               !.name = name, !.arg = path, !.ret = r.ret]
     /\ rasters' = <<>>
     /\ drawn' = <<>>
     /\ UNCHANGED default_sm

\* fonts.load_font_from_file(name, path)
load_font_from_file(name, path) ==
  load_font_from_file_with_scale(name, path, DefaultScale)

\* fonts.unload_font_by_index(index)
unload_font_by_index(index) ==
  LET r == UnloadByIndex(fonts, index_by_name, index)
  IN /\ fonts' = r.fonts
     /\ index_by_name' = r.index_by_name
     /\ call' = [NoCall EXCEPT !.op = "unload_font_by_index", !.index = index]
     /\ rasters' = <<>>
     /\ drawn' = <<>>
     /\ UNCHANGED default_sm

\* fonts.unload_font_by_name(name)
unload_font_by_name(name) ==
  LET r == UnloadByName(fonts, index_by_name, name)
  IN /\ fonts' = r.fonts
     /\ index_by_name' = r.index_by_name
     /\ call' = [NoCall EXCEPT !.op = "unload_font_by_name", !.name = name,
                               !.index = UnloadIndex(fonts, index_by_name, name)]
     /\ rasters' = <<>>
     /\ drawn' = <<>>
     /\ UNCHANGED default_sm

\* fonts.get_index_by_char(c)
query_index_by_char(c) ==
  /\ call' = [NoCall EXCEPT !.op = "get_index_by_char", !.c = c,
                            !.val = get_index_by_char(fonts, c)]
  /\ rasters' = <<>>
  /\ drawn' = <<>>
  /\ UNCHANGED <<fonts, index_by_name, default_sm>>

\* fonts.get_index_by_name(name)
query_index_by_name(name) ==
  /\ call' = [NoCall EXCEPT !.op = "get_index_by_name", !.name = name,
                            !.val = get_index_by_name(index_by_name, name)]
  /\ rasters' = <<>>
  /\ drawn' = <<>>
  /\ UNCHANGED <<fonts, index_by_name, default_sm>>

\* A cache_glyph that panics when there is no font to choose for c.
cache_glyph_resolving(c, size) ==
  \E gs \in {CacheAll(fonts, c, size)} :
     /\ TotalIds(gs) <= MaxGlyphs
     /\ fonts' = gs
     /\ call' = [NoCall EXCEPT !.op = "cache_glyph", !.c = c, !.size = size,
                               !.ret = IF get_font_by_char_or_panic(fonts, c).panic
                                         THEN "panic" ELSE "Ok"]
     /\ rasters' = NewRasters(fonts, gs, c, size, 1)
     /\ drawn' = <<>>
     /\ UNCHANGED <<index_by_name, default_sm>>

\* fonts.cache_glyph(c, size)
cache_glyph(c, size) ==
  \E gs \in {CacheAll(fonts, c, size)} :
     /\ TotalIds(gs) <= MaxGlyphs
     /\ fonts' = gs
     /\ call' = [NoCall EXCEPT !.op = "cache_glyph", !.c = c, !.size = size]
     /\ rasters' = NewRasters(fonts, gs, c, size, 1)
     /\ drawn' = <<>>
     /\ UNCHANGED <<index_by_name, default_sm>>

\* fonts.get_font_by_index(index).cache_glyph(c, size), index in range
font_cache_glyph(index, c, size) ==
  /\ index < Len(fonts)
  /\ \E gs \in {[fonts EXCEPT ![index + 1] = Font_cache_glyph(@, c, size)]} :
        /\ TotalIds(gs) <= MaxGlyphs
        /\ fonts' = gs
        /\ rasters' = NewRasters(fonts, gs, c, size, 1)
  /\ call' = [NoCall EXCEPT !.op = "font_cache_glyph", !.index = index,
                            !.c = c, !.size = size]
  /\ drawn' = <<>>
  /\ UNCHANGED <<index_by_name, default_sm>>

\* fonts.get_font_by_index(index).recache_glyphs(), index in range; the cache
\* is a HashMap, so the order of its iteration is any order of its keys.
font_recache_glyphs(index) ==
  /\ index < Len(fonts)
  /\ \E keys \in Orders(DOMAIN fonts[index + 1].chars) :
       \E gs \in {[fonts EXCEPT ![index + 1] = Font_recache_glyphs(@, keys)]} :
          /\ TotalIds(gs) <= MaxGlyphs
          /\ fonts' = gs
          /\ rasters' = [i \in 1..Len(keys) |-> <<index, keys[i][1], keys[i][2]>>]
  /\ call' = [NoCall EXCEPT !.op = "font_recache_glyphs", !.index = index]
  /\ drawn' = <<>>
  /\ UNCHANGED <<index_by_name, default_sm>>

\* The sizes (f32) texts are measured and drawn at: 1 and 1 + 1/Den pixels.
SizeInputs == {Den, Den + 1}
TextScales == {1, 2}
Texts == UNION {[1..n -> Chars] : n \in 0..MaxTextLen}
\* TextParams: what draw_text(text, 0, 0, 1.0, white) builds, and another.
ParamsInputs ==
  {[x |-> 0, y |-> 0, size |-> Den, scale |-> 1, color |-> "white", draw |-> "TopLeft"],
   [x |-> F(1), y |-> F(3), size |-> Den + 1, scale |-> 2, color |-> "red",
    draw |-> "BottomLeft"]}
ColoredInputs ==
  {<<>>,
   <<Color("red"), Char("a"), Char("b")>>,
   <<Str(<<"a">>), Color("blue"), Str(<<>>), Str(<<"b", "a">>)>>}

\* What a finished loop leaves: the fonts, and a panic or the value `dims`.
Finish(op, end, rec) ==
  /\ TotalIds(end.fonts) <= MaxGlyphs
  /\ fonts' = end.fonts
  /\ rasters' = end.rasters
  /\ drawn' = end.drawn
  /\ call' = IF end.panic THEN [rec EXCEPT !.op = op, !.ret = "panic"]
             ELSE [rec EXCEPT !.op = op, !.dims = Dimensions(end),
                              !.stamps = end.stamps]
  /\ UNCHANGED <<index_by_name, default_sm>>

\* fonts.measure_text(text, size)
measure_text(text, size) ==
  \E end \in {MeasureLoop(LoopStart(fonts), text, size)} :
    Finish("measure_text", end, [NoCall EXCEPT !.text = text, !.size = size])

\* fonts.measure_scaled_text(text, size, scale)
measure_scaled_text(text, size, scale) ==
  \E end \in {MeasureScaledLoop(LoopStart(fonts), text, size, scale)} :
    Finish("measure_scaled_text", end,
           [NoCall EXCEPT !.text = text, !.size = size, !.scale = scale])

\* fonts.draw_text_ex(text, params); call.val is the total the loop summed.
draw_text_ex(text, params) ==
  \E d \in {DrawText(fonts, Plain(text), params)} :
    Finish("draw_text_ex", d.end,
           [NoCall EXCEPT !.text = text, !.params = params,
                          !.val = IF d.end.panic THEN None ELSE d.total_width])

\* fonts.draw_text(text, x, y, size, color)
draw_text(text, x, y, size, color) ==
  draw_text_ex(text, [x |-> x, y |-> y, size |-> size, scale |-> 1,
                      color |-> color, draw |-> "TopLeft"])

\* fonts.draw_colored_text_ex(text, params), text a ColoredStr
draw_colored_text_ex(text, params) ==
  \E d \in {DrawText(fonts, Collect(ColoredStr_iter(text)), params)} :
    Finish("draw_colored_text_ex", d.end,
           [NoCall EXCEPT !.text = text, !.params = params,
                          !.val = IF d.end.panic THEN None ELSE d.total_width])

\* Fonts::draw_char: cache the glyph in the font chosen for c, then draw it.
DrawChar(fs, c, current_width, params) ==
  LET r == get_font_by_char_or_panic(fs, c)
      cached == LoopCache(LoopStart(fs), r.index, c, AsU16(params.size))
      d == Fonts__draw_char(cached.fonts, c, current_width, params.color,
                            r.index, params)
  IN IF r.panic THEN [end |-> [LoopStart(fs) EXCEPT !.panic = TRUE], advance |-> 0]
     ELSE IF d.panic THEN [end |-> [cached EXCEPT !.panic = TRUE], advance |-> 0]
     ELSE [end |-> [cached EXCEPT !.drawn = d.cmd,
                                  !.stamps = <<Len(cached.rasters)>>],
           advance |-> d.advance]

\* fonts.draw_char(c, current_width, params); call.val is the advance.
draw_char(c, current_width, params) ==
  \E d \in {DrawChar(fonts, c, current_width, params)} :
     /\ TotalIds(d.end.fonts) <= MaxGlyphs
     /\ fonts' = d.end.fonts
     /\ rasters' = d.end.rasters
     /\ drawn' = d.end.drawn
     /\ call' = IF d.end.panic
                  THEN [NoCall EXCEPT !.op = "draw_char", !.c = c, !.params = params,
                                      !.ret = "panic"]
                  ELSE [NoCall EXCEPT !.op = "draw_char", !.c = c, !.params = params,
                                      !.val = d.advance, !.stamps = d.end.stamps]
     /\ UNCHANGED <<index_by_name, default_sm>>

\* The caller takes what the call returned and goes on: nothing of the last
\* call is kept but the collection itself.
Return ==
  /\ call # NoCall
  /\ call' = NoCall
  /\ rasters' = <<>>
  /\ drawn' = <<>>
  /\ UNCHANGED <<fonts, index_by_name, default_sm>>

\* The caller is between two calls.
Idle == call = NoCall

\* A call on the collection starts between two calls and leaves the iterator
\* alone; its borrows are not followed one by one.
Calling == Idle /\ UNCHANGED <<iter, iterated, borrows>>

\* Loading, unloading, lookups and the glyph caches; calls come one at a time.
Next ==
  \/ Calling /\ \E n \in Names, b \in Bytes, s \in ScaleInputs :
                  load_font_from_bytes_with_scale(n, b, s) /\ Len(fonts') <= MaxFonts
  \/ Calling /\ \E n \in Names, b \in Bytes :
                  load_font_from_bytes(n, b) /\ Len(fonts') <= MaxFonts
  \/ Calling /\ \E n \in Names, p \in Paths, s \in ScaleInputs :
                  load_font_from_file_with_scale(n, p, s) /\ Len(fonts') <= MaxFonts
  \/ Calling /\ \E n \in Names, p \in Paths :
                  load_font_from_file(n, p) /\ Len(fonts') <= MaxFonts
  \/ Calling /\ \E i \in 0..MaxFonts : unload_font_by_index(i)
  \/ Calling /\ \E n \in Names : unload_font_by_name(n)
  \/ Calling /\ \E c \in Chars : query_index_by_char(c)
  \/ Calling /\ \E n \in Names : query_index_by_name(n)
  \/ Calling /\ \E c \in Chars, z \in PxSizes : cache_glyph(c, z)
  \/ Calling /\ \E i \in 0..(MaxFonts - 1), c \in Chars, z \in PxSizes :
                  font_cache_glyph(i, c, z)
  \/ Calling /\ \E i \in 0..(MaxFonts - 1) : font_recache_glyphs(i)
  \/ Return /\ UNCHANGED <<iter, iterated, borrows>>

Spec == Init /\ [][Next]_vars

\* Measuring and drawing over a collection whose fonts all have the name n1.
NextText ==
  \/ Calling /\ \E b \in Bytes, s \in ScaleInputs :
                  load_font_from_bytes_with_scale("n1", b, s) /\ Len(fonts') <= MaxFonts
  \/ Calling /\ \E i \in 0..MaxFonts : unload_font_by_index(i)
  \/ Calling /\ \E c \in Chars, z \in PxSizes : cache_glyph(c, z)
  \/ Calling /\ \E i \in 0..(MaxFonts - 1) : font_recache_glyphs(i)
  \/ Calling /\ \E t \in Texts, z \in SizeInputs : measure_text(t, z)
  \/ Calling /\ \E t \in Texts, k \in TextScales : measure_scaled_text(t, Den + 1, k)
  \/ Calling /\ \E t \in Texts, p \in ParamsInputs : draw_text_ex(t, p)
  \/ Calling /\ \E t \in Texts : draw_text(t, 0, 0, Den, "white")
  \/ Calling /\ \E t \in ColoredInputs, p \in ParamsInputs : draw_colored_text_ex(t, p)
  \/ Calling /\ \E c \in Chars, p \in ParamsInputs : draw_char(c, 0, p)
  \/ Return /\ UNCHANGED <<iter, iterated, borrows>>

SpecText == Init /\ [][NextText]_vars

\* The collection as a set of named fonts: loading, unloading and the lookups,
\* with room for a font more than where glyphs are cached.
NextSet ==
  \/ Calling /\ \E n \in Names, b \in Bytes, s \in ScaleInputs :
                  load_font_from_bytes_with_scale(n, b, s) /\ Len(fonts') <= MaxSetFonts
  \/ Calling /\ \E n \in Names, p \in Paths :
                  load_font_from_file(n, p) /\ Len(fonts') <= MaxSetFonts
  \/ Calling /\ \E i \in 0..MaxSetFonts : unload_font_by_index(i)
  \/ Calling /\ \E n \in Names : unload_font_by_name(n)
  \/ Calling /\ \E c \in Chars : query_index_by_char(c)
  \/ Calling /\ \E n \in Names : query_index_by_name(n)
  \/ Return /\ UNCHANGED <<iter, iterated, borrows>>

SpecSet == Init /\ [][NextSet]_vars

\* The components ColoredStr values are built from.
ComponentInputs ==
  {Str(<<>>), Str(<<"a", "b">>), Char("b"), Color("red"), Color("blue")}
ColoredStrs == UNION {[1..n -> ComponentInputs] : n \in 0..MaxComponents}

\* ColoredStr::new(components).iter()
colored_iter(components) ==
  /\ iter' = ColoredStr_iter(components)
  /\ iterated' = [of |-> components, items |-> <<>>, ended |-> FALSE]
  /\ UNCHANGED <<fonts, index_by_name, default_sm, call, rasters, drawn, borrows>>

\* iter.next(): a pair is yielded, or the iteration has ended.
iter_next ==
  /\ \E n \in {ColorStrIter_next(iter)} :
        /\ iter' = n.it
        /\ iterated' = IF n.some
                         THEN [iterated EXCEPT !.items = Append(@, <<n.c, n.color>>)]
                         ELSE [iterated EXCEPT !.ended = TRUE]
  /\ UNCHANGED <<fonts, index_by_name, default_sm, call, rasters, drawn, borrows>>

\* Iterating over coloured strings.
NextIter ==
  \/ \E cs \in ColoredStrs : colored_iter(cs)
  \/ iter_next

SpecIter == Init /\ [][NextIter]_vars

\* A call whose borrows are followed one by one: it starts between two calls
\* with the borrows `events` to come.
Borrowing(events) ==
  /\ UNCHANGED <<iter, iterated>>
  /\ borrows' = [borrows EXCEPT !.pending = events]

\* The next borrow of the call is taken, or the next drop made.
borrow_step ==
  /\ borrows.pending # <<>>
  /\ ~borrows.panic
  /\ borrows' = RefCell_step(borrows)
  /\ UNCHANGED <<fonts, index_by_name, default_sm, call, rasters, drawn,
                 iter, iterated>>

\* Caching, measuring and drawing with every borrow and drop of a call as a
\* step; a call returns when none is left to come.
NextBorrow ==
  \/ Calling /\ \E b \in Bytes :
                  load_font_from_bytes("n1", b) /\ Len(fonts') <= MaxFonts
  \/ Idle /\ \E c \in Chars, z \in PxSizes :
               cache_glyph(c, z) /\ Borrowing(CacheAll_borrows(fonts, c, z, 1))
  \/ Idle /\ \E i \in 0..(MaxFonts - 1) :
               /\ font_recache_glyphs(i)
               /\ Borrowing(Font_recache_glyphs_borrows(fonts[i + 1], i))
  \/ Idle /\ \E t \in Texts :
               /\ measure_text(t, Den + 1)
               /\ Borrowing(MeasureLoop_borrows(fonts, t, Den + 1))
  \/ Idle /\ \E t \in Texts, p \in ParamsInputs :
               /\ draw_text_ex(t, p)
               /\ Borrowing(DrawText_borrows(fonts, t, p))
  \/ Idle /\ \E c \in Chars, p \in ParamsInputs :
               /\ draw_char(c, 0, p)
               /\ Borrowing(DrawChar_borrows(fonts, c, p))
  \/ borrow_step
  \/ Return /\ borrows.pending = <<>> /\ UNCHANGED <<iter, iterated, borrows>>

SpecBorrow == Init /\ [][NextBorrow]_vars

\* ================================================================== claims
\* The indices (0-based) of the loaded fonts that contain c.
Holders(c) == {i \in 0..(Len(fonts) - 1) : Font_contains(fonts[i + 1], c)}

\* C1: get_index_by_char(c) returns the lowest index among the loaded fonts
\* that contain c, and None exactly when no loaded font contains c.
C1_FirstRegisteredFontWins ==
  call.op = "get_index_by_char" =>
    IF Holders(call.c) = {}
      THEN call.val = None
      ELSE /\ call.val \in Holders(call.c)
           /\ \A j \in Holders(call.c) : call.val <= j

\* C1 witness: a lookup of a character that two loaded fonts contain.
C1_Witness ==
  /\ call.op = "get_index_by_char"
  /\ Cardinality(Holders(call.c)) >= 2
  /\ call.val = 0

\* C2: every name of the name index maps to an index in range whose font has
\* that name, and the name of every loaded font is a key of the name index.
C2_NameIndexConsistent ==
  /\ \A n \in DOMAIN index_by_name :
       /\ index_by_name[n] \in 0..(Len(fonts) - 1)
       /\ fonts[index_by_name[n] + 1].name = n
  /\ \A i \in 1..Len(fonts) : fonts[i].name \in DOMAIN index_by_name

\* C2 witness: the first font was unloaded and a font stays loaded.
C2_Witness ==
  /\ call.op = "unload_font_by_index"
  /\ call.index = 0
  /\ Len(fonts) >= 1

\* The calls that measure or draw.
TextOps ==
  {"measure_text", "measure_scaled_text", "draw_text_ex", "draw_colored_text_ex",
   "draw_char"}

\* C3: after cache_glyph(c, size), the same call again rasterizes nothing,
\* issues no slot id and leaves the stored slot ids as they are; and one
\* measure or draw call rasterizes no (c, size) twice.
C3_CacheGlyphIdempotent ==
  /\ call.op = "cache_glyph" =>
       /\ CacheAll(fonts, call.c, call.size) = fonts
       /\ \A i \in 1..Len(fonts) : <<call.c, call.size>> \in DOMAIN fonts[i].chars
  /\ call.op \in TextOps =>
       \A i, j \in 1..Len(rasters) :
         (rasters[i][2] = rasters[j][2] /\ rasters[i][3] = rasters[j][3]) => i = j

\* C3 witness: a cache_glyph call that rasterized the glyph in two fonts.
C3_Witness ==
  /\ call.op = "cache_glyph"
  /\ Len(rasters) = 2

\* The removed index (0-based) of a step that unloads a font, else None.
RemovedIndex ==
  IF Len(fonts') >= Len(fonts) THEN None
  ELSE IF call'.op = "unload_font_by_index" THEN call'.index
  ELSE IF call'.op = "unload_font_by_name" THEN call'.index
  ELSE None

\* The position (1-based) before the step of the font that is j-th after it.
Before(j) ==
  IF RemovedIndex = None THEN j
  ELSE IF j <= RemovedIndex THEN j ELSE j + 1

\* The fonts of the next state that were loaded before the step.
Survivors ==
  IF Len(fonts') > Len(fonts) THEN 1..Len(fonts) ELSE 1..Len(fonts')

\* C4 as stated: when the membership changes, no cache entry that existed
\* before is still stored unchanged.
C4_Original ==
  [][Len(fonts') # Len(fonts) =>
       \A j \in Survivors :
         \A k \in DOMAIN fonts[Before(j)].chars :
           ~(k \in DOMAIN fonts'[j].chars
             /\ fonts'[j].chars[k] = fonts[Before(j)].chars[k])]_vars

\* C4 amended: when the membership changes, every font that stays loaded keeps
\* its glyph cache and its atlas exactly as they were, and a font that was
\* just loaded has an empty cache.
C4_SurvivorsKeepTheirCaches ==
  [][Len(fonts') # Len(fonts) =>
       /\ \A j \in Survivors :
            /\ fonts'[j].chars = fonts[Before(j)].chars
            /\ fonts'[j].atlas = fonts[Before(j)].atlas
       /\ Len(fonts') > Len(fonts) => fonts'[Len(fonts')].chars = EmptyMap]_vars

\* C4 witness: a font was loaded while the first font had cached glyphs.
C4_Witness ==
  /\ call.op = "load_font_from_bytes_with_scale"
  /\ call.ret = "Ok"
  /\ Len(fonts) >= 2
  /\ fonts[1].chars # EmptyMap

\* C5: recache_glyphs keeps the keys of the cache and gives every entry the
\* result of a new rasterization under a slot id issued in that call and
\* packed in the atlas; the other fonts are left alone.
C5_RecacheReplacesEveryEntry ==
  [][call'.op = "font_recache_glyphs" =>
       /\ Len(fonts') = Len(fonts)
       /\ \A i \in 1..Len(fonts) : i # call'.index + 1 => fonts'[i] = fonts[i]
       /\ LET old == fonts[call'.index + 1]
              new == fonts'[call'.index + 1]
          IN /\ DOMAIN new.chars = DOMAIN old.chars
             /\ \A k \in DOMAIN new.chars :
                  /\ new.chars[k].id > old.atlas.unique_id
                  /\ new.chars[k].id <= new.atlas.unique_id
                  /\ new.chars[k].id \in DOMAIN new.atlas.sprites
                  /\ new.chars[k].advance
                       = F(rasterize(new.font, k[1], k[2]).advance_width)
             /\ \A k1, k2 \in DOMAIN new.chars :
                  new.chars[k1].id = new.chars[k2].id => k1 = k2]_vars

\* C5 witness: a font with two cached glyphs was recached.
C5_Witness ==
  /\ call.op = "font_recache_glyphs"
  /\ Cardinality(DOMAIN fonts[call.index + 1].chars) >= 2
  /\ Len(rasters) >= 2

\* The characters a measure or draw call has to resolve, its pixel size and
\* its scale.
CallChars ==
  IF call.op = "draw_char" THEN <<call.c>>
  ELSE IF call.op = "draw_colored_text_ex"
    THEN CharsOf(Collect(ColoredStr_iter(call.text)))
  ELSE call.text

CallPx ==
  IF call.op \in {"measure_text", "measure_scaled_text"}
    THEN AsU16(call.size) ELSE AsU16(call.params.size)

CallScale ==
  IF call.op = "measure_text" THEN 1
  ELSE IF call.op = "measure_scaled_text" THEN call.scale
  ELSE call.params.scale

\* C6: with no font loaded, a measure or draw call that has a character to
\* resolve panics, and nothing was cached or drawn when it does.
C6_EmptyFontSetPanics ==
  (call.op \in TextOps /\ Len(fonts) = 0 /\ CallChars # <<>>) =>
    /\ call.ret = "panic"
    /\ rasters = <<>>
    /\ drawn = <<>>

\* C6 witness: draw_text_ex of a text with characters while no font is loaded.
C6_Witness ==
  /\ call.op = "draw_text_ex"
  /\ Len(fonts) = 0
  /\ Len(call.text) >= 1
  /\ call.ret = "panic"

\* The index (0-based) of the font used for c: the first that contains it,
\* and the first of all when none does.
UsedFont(c) ==
  IF Holders(c) = {} THEN 0
  ELSE CHOOSE i \in Holders(c) : \A j \in Holders(c) : i <= j

\* The sum of the cached advances of the characters of text, scaled.
RECURSIVE SumAdvances(_)
SumAdvances(text) ==
  IF text = <<>> THEN 0
  ELSE fonts[UsedFont(Head(text)) + 1].chars[<<Head(text), CallPx>>].advance
         * CallScale
       + SumAdvances(Tail(text))

\* C7: with a font loaded, a measure or draw call does not panic; a character
\* that no font contains is cached in the first font (and rasterized by no
\* other), and the width returned is the sum of the advances, that of such a
\* character being the first font's.
C7_FallsBackToFirstFont ==
  (call.op \in TextOps /\ Len(fonts) >= 1) =>
    /\ call.ret # "panic"
    /\ \A n \in 1..Len(CallChars) :
         Holders(CallChars[n]) = {} =>
           /\ <<CallChars[n], CallPx>> \in DOMAIN fonts[1].chars
           /\ fonts[1].chars[<<CallChars[n], CallPx>>].advance
                = F(rasterize(fonts[1].font, CallChars[n], CallPx).advance_width)
           /\ \A r \in 1..Len(rasters) :
                rasters[r][2] = CallChars[n] => rasters[r][1] = 0
    /\ call.op # "draw_char" => call.dims.width = SumAdvances(CallChars)
    /\ call.op = "draw_char" => call.val = SumAdvances(CallChars)

\* C7 witness: with two fonts loaded, a character that neither contains was
\* measured and rasterized by the first font.
C7_Witness ==
  /\ call.op = "measure_text"
  /\ Len(fonts) = 2
  /\ call.text = <<"b">>
  /\ Holders("b") = {}
  /\ rasters = <<<<0, "b", AsU16(call.size)>>>>
  /\ call.dims.width > 0

\* The calls that load a font.
LoadOps == {"load_font_from_bytes_with_scale", "load_font_from_file_with_scale"}

\* C8: a load of bytes that do not parse, or of a file that cannot be read,
\* returns an error and leaves the fonts (with their caches) and the name
\* index as they were.
C8_FailedLoadChangesNothing ==
  [][call'.op \in LoadOps =>
       /\ (call'.op = "load_font_from_bytes_with_scale" /\ call'.arg \notin ValidBytes)
            => call'.ret = "FontError"
       /\ (call'.op = "load_font_from_file_with_scale" /\ ~read_file(call'.arg).ok)
            => call'.ret = "IoError"
       /\ (call'.op = "load_font_from_file_with_scale" /\ read_file(call'.arg).ok
             /\ read_file(call'.arg).bytes \notin ValidBytes)
            => call'.ret = "IoError:InvalidData"
       /\ call'.ret # "Ok" =>
            /\ fonts' = fonts
            /\ index_by_name' = index_by_name]_vars

\* C8 witness: a load failed on bytes that do not parse while a font with
\* cached glyphs was loaded.
C8_Witness ==
  /\ call.op = "load_font_from_bytes_with_scale"
  /\ call.ret = "FontError"
  /\ Len(fonts) >= 1
  /\ fonts[1].chars # EmptyMap

\* C9: unload_font_by_index with an index that is not in range, and
\* unload_font_by_name with a name the index does not have, return normally
\* and leave the fonts (with their caches) and the name index as they were.
C9_OutOfRangeUnloadIsNoOp ==
  [][((call'.op = "unload_font_by_index" /\ call'.index >= Len(fonts))
        \/ (call'.op = "unload_font_by_name"
              /\ call'.name \notin DOMAIN index_by_name)) =>
       /\ call'.ret = "Ok"
       /\ fonts' = fonts
       /\ index_by_name' = index_by_name]_vars

\* C9 witness: an unload by a name the index does not have (the index handed
\* on is the number of fonts), with a font with cached glyphs loaded.
C9_Witness ==
  /\ call.op = "unload_font_by_name"
  /\ call.name \notin DOMAIN index_by_name
  /\ call.index = Len(fonts)
  /\ Len(fonts) = MaxFonts
  /\ fonts[1].chars # EmptyMap

\* C10 as stated: after unload_font_by_name(n), the same call again changes
\* neither the fonts nor the name index.
C10_Original ==
  call.op = "unload_font_by_name" =>
    LET again == UnloadByName(fonts, index_by_name, call.name)
    IN /\ again.fonts = fonts
       /\ again.index_by_name = index_by_name

\* C10 amended: it is so when at most one loaded font has the name n before
\* the first call.
C10_UnloadByUniqueNameIdempotent ==
  [][(call'.op = "unload_font_by_name"
        /\ Cardinality({i \in 1..Len(fonts) : fonts[i].name = call'.name}) <= 1) =>
       LET again == UnloadByName(fonts', index_by_name', call'.name)
       IN /\ again.fonts = fonts'
          /\ again.index_by_name = index_by_name']_vars

\* C10 witness: an unload by name removed a font, another font stays loaded
\* and no loaded font has that name any more.
C10_Witness ==
  /\ call.op = "unload_font_by_name"
  /\ call.index < Len(fonts)
  /\ \A i \in 1..Len(fonts) : fonts[i].name # call.name

\* C11 as stated: after unload_font_by_index(i) with fonts at i and i + 1,
\* get_index_by_name of the name of the font that was at i + 1 returns i.
C11_Original ==
  [][(call'.op = "unload_font_by_index" /\ call'.index + 1 < Len(fonts)) =>
       get_index_by_name(index_by_name', fonts[call'.index + 2].name)
         = call'.index]_vars

\* C11 amended: the fonts that stay keep their order, the font that was at
\* i + 1 is at i, and get_index_by_name of its name returns the greatest
\* index of a remaining font of that name: i when no font after it has it.
C11_UnloadShiftsLaterFontsDown ==
  [][(call'.op = "unload_font_by_index" /\ call'.index + 1 < Len(fonts)) =>
       LET i == call'.index
           n == fonts[i + 2].name
           got == get_index_by_name(index_by_name', n)
       IN /\ Len(fonts') = Len(fonts) - 1
          /\ \A j \in 1..Len(fonts') : fonts'[j] = fonts[Before(j)]
          /\ fonts'[i + 1] = fonts[i + 2]
          /\ got >= i
          /\ fonts'[got + 1].name = n
          /\ \A j \in (got + 2)..Len(fonts') : fonts'[j].name # n
          /\ (\A j \in (i + 3)..Len(fonts) : fonts[j].name # n) => got = i]_vars

\* C11 witness: the first of three fonts was unloaded; the two that stay have
\* different names and the name index gives the first of them index 0.
C11_Witness ==
  /\ call.op = "unload_font_by_index"
  /\ call.index = 0
  /\ Len(fonts) = 2
  /\ fonts[1].name # fonts[2].name
  /\ get_index_by_name(index_by_name, fonts[1].name) = 0

\* The colour in force at the k-th component of a ColoredStr: that of the
\* last colour component before it, "none" when there is none.
ColorBefore(cs, k) ==
  LET marks == {j \in 1..(k - 1) : cs[j].kind = "Color"}
  IN IF marks = {} THEN "none"
     ELSE cs[CHOOSE j \in marks : \A m \in marks : m <= j].color

\* The pairs the k-th component of a ColoredStr stands for.
PairsOf(cs, k) ==
  IF cs[k].kind = "Str"
    THEN [i \in 1..Len(cs[k].str) |-> <<cs[k].str[i], ColorBefore(cs, k)>>]
  ELSE IF cs[k].kind = "Char" THEN <<<<cs[k].c, ColorBefore(cs, k)>>>>
  ELSE <<>>

\* The pairs of the components from the k-th on, in order.
RECURSIVE PairsFrom(_, _)
PairsFrom(cs, k) ==
  IF k > Len(cs) THEN <<>> ELSE PairsOf(cs, k) \o PairsFrom(cs, k + 1)

\* C12: what an iterator over a ColoredStr has yielded is always a prefix of
\* the pairs of its components (one per character of a Str or Char component,
\* in order, none for a Color or an empty Str, each with the colour of the
\* last Color before it or none), and all of them once the iterator has ended.
C12_IterationYieldsEveryCharacterWithItsColour ==
  LET all == PairsFrom(iterated.of, 1)
      n == Len(iterated.items)
  IN /\ n <= Len(all)
     /\ iterated.items = SubSeq(all, 1, n)
     /\ iterated.ended => iterated.items = all

\* C12 witness: an iteration has ended over a character, a colour and a
\* string of two characters.
C12_Witness ==
  /\ iterated.ended
  /\ iterated.of = <<Char("b"), Color("blue"), Str(<<"a", "b">>)>>
  /\ iterated.items = <<<<"b", "none">>, <<"a", "blue">>, <<"b", "blue">>>>

\* C13: draw_colored_text_ex emits one draw command per pair of the text, in
\* order, tinted with the colour of the pair, and with params.color where the
\* pair has none (before the first colour marker); draw_text_ex tints the
\* command of every character with params.color.
C13_TintIsIteratedColourOrDefault ==
  /\ (call.op = "draw_colored_text_ex" /\ call.ret = "Ok") =>
       LET pairs == PairsFrom(call.text, 1)
       IN /\ Len(drawn) = Len(pairs)
          /\ \A k \in 1..Len(pairs) :
               drawn[k].color = IF pairs[k][2] = "none" THEN call.params.color
                                ELSE pairs[k][2]
  /\ (call.op = "draw_text_ex" /\ call.ret = "Ok") =>
       /\ Len(drawn) = Len(call.text)
       /\ \A k \in 1..Len(drawn) : drawn[k].color = call.params.color

\* C13 witness: a coloured text was drawn whose first character comes before
\* the first colour marker and took params.color, the next the marker's.
C13_Witness ==
  /\ call.op = "draw_colored_text_ex"
  /\ call.ret = "Ok"
  /\ call.text = <<Str(<<"a">>), Color("blue"), Str(<<>>), Str(<<"b", "a">>)>>
  /\ call.params.color = "white"
  /\ Len(drawn) = 3
  /\ drawn[1].color = "white"
  /\ drawn[2].color = "blue"

\* The calls that draw a text.
DrawTextOps == {"draw_text_ex", "draw_colored_text_ex"}

\* C14: the total width the drawing loop of draw_text_ex (and of
\* draw_colored_text_ex) has summed is the width of the dimensions it returns,
\* those of measure_scaled_text, and at scale 1 it is the width measure_text
\* gives for the same text and size.
C14_DrawnTotalIsMeasuredWidth ==
  (call.op \in DrawTextOps /\ call.ret = "Ok") =>
    /\ call.val = call.dims.width
    /\ call.val = Dimensions(MeasureScaledLoop(LoopStart(fonts), CallChars,
                                               call.params.size,
                                               call.params.scale)).width
    /\ call.params.scale = 1 =>
         call.val = Dimensions(MeasureLoop(LoopStart(fonts), CallChars,
                                           call.params.size)).width

\* C14 witness: two characters were drawn at scale 2 and the loop summed a
\* width that is not zero.
C14_Witness ==
  /\ call.op = "draw_text_ex"
  /\ call.ret = "Ok"
  /\ Len(call.text) = 2
  /\ call.params.scale = 2
  /\ call.val > 0
  /\ call.val = call.dims.width

\* C15 as stated: all the draw commands of one call that draws a text take
\* their glyphs from the same atlas texture.
C15_Original ==
  (call.op \in DrawTextOps /\ call.ret = "Ok") =>
    \A j, k \in 1..Len(drawn) : drawn[j].texture = drawn[k].texture

\* C15 amended: every font has an atlas of its own; each of its cached glyph
\* entries refers to a slot of that atlas, and the draw command of a character
\* takes the texture of the atlas of the font chosen for that character and
\* the slot that font has cached for it.
C15_EachFontDrawsFromItsOwnAtlas ==
  /\ \A i \in 1..Len(fonts) :
       \A key \in DOMAIN fonts[i].chars :
         fonts[i].chars[key].id \in DOMAIN fonts[i].atlas.sprites
  /\ (call.op \in DrawTextOps /\ call.ret = "Ok") =>
       /\ Len(drawn) = Len(CallChars)
       /\ \A k \in 1..Len(drawn) :
            LET i == UsedFont(CallChars[k])
                font == fonts[i + 1]
            IN /\ drawn[k].texture = i
               /\ drawn[k].source
                    = Atlas_get(font.atlas, font.chars[<<CallChars[k], CallPx>>].id).rect

\* C15 witness: one call drew two characters from the atlases of two fonts.
C15_Witness ==
  /\ call.op = "draw_text_ex"
  /\ call.ret = "Ok"
  /\ Len(drawn) = 2
  /\ drawn[1].texture = 0
  /\ drawn[2].texture = 1

\* C16: over every step that caches glyphs, with or without a growth of the
\* atlas, every slot id a font's atlas had issued still resolves to a
\* rectangle of the same width and height; every id issued so far resolves,
\* and the slot of a cached glyph has the width and height of its bitmap.
C16_GrowthKeepsEverySlot ==
  [][Len(fonts') = Len(fonts) =>
       \A i \in 1..Len(fonts) :
         /\ \A id \in 1..fonts[i].atlas.unique_id :
              /\ Atlas_get(fonts'[i].atlas, id).some
              /\ Atlas_get(fonts'[i].atlas, id).rect.w
                   = Atlas_get(fonts[i].atlas, id).rect.w
              /\ Atlas_get(fonts'[i].atlas, id).rect.h
                   = Atlas_get(fonts[i].atlas, id).rect.h
         /\ DOMAIN fonts'[i].atlas.sprites = 1..fonts'[i].atlas.unique_id
         /\ \A key \in DOMAIN fonts'[i].chars :
              LET matrix == rasterize(fonts'[i].font, key[1], key[2])
                  got == Atlas_get(fonts'[i].atlas, fonts'[i].chars[key].id)
              IN /\ got.some
                 /\ got.rect.w = F(matrix.width)
                 /\ got.rect.h = F(matrix.height)]_vars

\* C16 witness: an atlas has grown with a glyph packed in it before, and the
\* glyph packed first is still there.
C16_Witness ==
  \E i \in 1..Len(fonts) :
    /\ fonts[i].atlas.width > AtlasInitSize
    /\ fonts[i].atlas.unique_id >= 2
    /\ Atlas_get(fonts[i].atlas, 1).some

\* C17 as stated: cache_glyph(c, size) for a key that no font has cached
\* rasterizes once, with the font chosen for c, and issues one slot id.
C17_Original ==
  [][(call'.op = "cache_glyph" /\ Len(fonts) > 0
        /\ \A i \in 1..Len(fonts) : <<call'.c, call'.size>> \notin DOMAIN fonts[i].chars) =>
       /\ rasters' = <<<<get_font_by_char_or_panic(fonts, call'.c).index,
                         call'.c, call'.size>>>>
       /\ TotalIds(fonts') = TotalIds(fonts) + 1]_vars

\* C17 amended: cache_glyph(c, size) chooses no font: every loaded font that
\* has not cached the key rasterizes c itself, once, issues one slot id and
\* stores one CharacterInfo under the key; a font that has cached it is left
\* as it is.
C17_EveryFontCachesTheGlyph ==
  [][call'.op = "cache_glyph" =>
       LET key == <<call'.c, call'.size>>
           lacking == {i \in 1..Len(fonts) : key \notin DOMAIN fonts[i].chars}
       IN /\ Len(fonts') = Len(fonts)
          /\ Len(rasters') = Cardinality(lacking)
          /\ \A i \in lacking :
               /\ \E k \in 1..Len(rasters') : rasters'[k] = <<i - 1, key[1], key[2]>>
               /\ fonts'[i].atlas.unique_id = fonts[i].atlas.unique_id + 1
               /\ DOMAIN fonts'[i].atlas.sprites
                    = DOMAIN fonts[i].atlas.sprites \cup {fonts'[i].atlas.unique_id}
               /\ DOMAIN fonts'[i].chars = DOMAIN fonts[i].chars \cup {key}
               /\ \A k \in DOMAIN fonts[i].chars :
                    fonts'[i].chars[k] = fonts[i].chars[k]
               /\ fonts'[i].chars[key].id = fonts'[i].atlas.unique_id
               /\ fonts'[i].chars[key].advance
                    = F(rasterize(fonts[i].font, key[1], key[2]).advance_width)
          /\ \A i \in (1..Len(fonts)) \ lacking : fonts'[i] = fonts[i]]_vars

\* C17 witness: cache_glyph of a character that the second font contains and
\* the first does not made both fonts rasterize it.
C17_Witness ==
  /\ call.op = "cache_glyph"
  /\ Len(fonts) = 2
  /\ Holders(call.c) = {1}
  /\ rasters = <<<<0, call.c, call.size>>, <<1, call.c, call.size>>>>

\* C18 as stated: cache_glyph(c, size) with no font loaded fails.
C18_Original ==
  (call.op = "cache_glyph" /\ Len(fonts) = 0) => call.ret = "panic"

\* C18 amended: cache_glyph(c, size) with no font loaded returns normally and
\* has done nothing: no rasterization, no font, an empty name index.
C18_CacheGlyphWithoutFontsIsNoOp ==
  (call.op = "cache_glyph" /\ Len(fonts) = 0) =>
    /\ call.ret = "Ok"
    /\ rasters = <<>>
    /\ drawn = <<>>
    /\ index_by_name = EmptyMap

\* C18 witness: cache_glyph was called with no font loaded.
C18_Witness ==
  /\ call.op = "cache_glyph"
  /\ call.c = "a"
  /\ Len(fonts) = 0
  /\ call.ret = "Ok"

\* C19: in a call that draws a text, every rasterization of the call was made
\* before its first draw command (so every character was cached by then and
\* nothing is packed between two draw commands), and there is one draw
\* command per character, in the order of the text: the k-th draws the glyph
\* of the k-th character at the advances of the characters before it.
C19_CachingPrecedesDrawing ==
  (call.op \in DrawTextOps /\ call.ret = "Ok") =>
    /\ Len(drawn) = Len(CallChars)
    /\ Len(call.stamps) = Len(drawn)
    /\ \A k \in 1..Len(drawn) :
         LET c == CallChars[k]
             font == fonts[UsedFont(c) + 1]
             info == font.chars[<<c, CallPx>>]
         IN /\ call.stamps[k] = Len(rasters)
            /\ <<c, CallPx>> \in DOMAIN font.chars
            /\ drawn[k].texture = UsedFont(c)
            /\ drawn[k].source = Atlas_get(font.atlas, info.id).rect
            /\ drawn[k].x = info.offset_x * CallScale
                              + SumAdvances(SubSeq(CallChars, 1, k - 1))
                              + call.params.x

\* C19 witness: a call drew two characters that it had to rasterize both.
C19_Witness ==
  /\ call.op \in DrawTextOps
  /\ call.ret = "Ok"
  /\ Len(drawn) = 2
  /\ Len(rasters) = 2
  /\ call.stamps = <<2, 2>>

\* The sum of the advances the fonts used for the characters of text give
\* when they rasterize them now, scaled.
RECURSIVE SumRasterized(_)
SumRasterized(text) ==
  IF text = <<>> THEN 0
  ELSE F(rasterize(fonts[UsedFont(Head(text)) + 1].font, Head(text), CallPx)
           .advance_width) * CallScale
       + SumRasterized(Tail(text))

\* C20: every cached CharacterInfo of a font has the metrics that font gives
\* when it rasterizes the character of the key; a measure or draw call takes,
\* for each character, the glyph of the font that the fallback resolution
\* chooses among the fonts loaded now: the width it returns is the sum of the
\* advances of those fonts, and each draw command has the size of the bitmap
\* of that font.
C20_GlyphComesFromTheResolvedFont ==
  /\ \A i \in 1..Len(fonts) :
       \A key \in DOMAIN fonts[i].chars :
         LET matrix == rasterize(fonts[i].font, key[1], key[2])
             info == fonts[i].chars[key]
         IN /\ info.advance = F(matrix.advance_width)
            /\ info.offset_x = F(matrix.xmin)
            /\ info.offset_y = F(matrix.ymin)
  /\ (call.op \in TextOps /\ call.ret = "Ok") =>
       /\ call.op # "draw_char" => call.dims.width = SumRasterized(CallChars)
       /\ call.op = "draw_char" => call.val = SumRasterized(CallChars)
       /\ \A k \in 1..Len(drawn) :
            LET matrix == rasterize(fonts[UsedFont(CallChars[k]) + 1].font,
                                    CallChars[k], CallPx)
            IN /\ drawn[k].w = F(matrix.width) * CallScale
               /\ drawn[k].h = F(matrix.height) * CallScale

\* C20 witness: the first font, which does not contain b, had cached a glyph
\* for it before a font that contains b was loaded; a text with b measured
\* now made that second font rasterize it.
C20_Witness ==
  /\ call.op = "measure_text"
  /\ call.ret = "Ok"
  /\ call.text = <<"b">>
  /\ Len(fonts) = 2
  /\ Holders("b") = {1}
  /\ <<"b", CallPx>> \in DOMAIN fonts[1].chars
  /\ rasters = <<<<1, "b", CallPx>>>>

\* C21: the slot id of every CharacterInfo a font has cached resolves in the
\* atlas of that font, also after recache_glyphs and after a growth of the
\* atlas; so with a font loaded no measure or draw call panics, and after it
\* every character of the call is cached in the font used for it with a slot
\* that resolves.
C21_CachedSlotsResolve ==
  /\ \A i \in 1..Len(fonts) :
       \A key \in DOMAIN fonts[i].chars :
         /\ fonts[i].chars[key].id \in 1..fonts[i].atlas.unique_id
         /\ Atlas_get(fonts[i].atlas, fonts[i].chars[key].id).some
  /\ (call.op \in TextOps /\ Len(fonts) > 0) =>
       /\ call.ret = "Ok"
       /\ \A k \in 1..Len(CallChars) :
            LET font == fonts[UsedFont(CallChars[k]) + 1]
                key == <<CallChars[k], CallPx>>
            IN /\ key \in DOMAIN font.chars
               /\ Atlas_get(font.atlas, font.chars[key].id).some

\* C21 witness: a text was measured whose glyphs had been cached, then
\* recached under new slot ids, in an atlas that has grown.
C21_Witness ==
  /\ call.op = "measure_text"
  /\ call.ret = "Ok"
  /\ call.text = <<"a", "b">>
  /\ rasters = <<>>
  /\ Len(fonts) = 1
  /\ fonts[1].atlas.width > AtlasInitSize
  /\ fonts[1].chars[<<"a", CallPx>>].id > 2
  /\ fonts[1].chars[<<"b", CallPx>>].id > 2

\* The greatest index (0-based) below `bound` of a font of fs with the name n,
\* None when there is none.
GreatestBelow(fs, n, bound) ==
  LET named == {i \in 0..(bound - 1) : fs[i + 1].name = n}
  IN IF named = {} THEN None ELSE CHOOSE i \in named : \A j \in named : j <= i

\* C22: a load keeps every font loaded before, also one of the same name, and
\* after every step get_index_by_name(n) is the greatest index of a loaded
\* font of the name n; unload_font_by_name(n) removes the font at that index
\* and leaves the others in order, and n then maps to the greatest index
\* below it of a font of that name, or to nothing.
C22_NameMapsToLastRegistered ==
  [][/\ \A n \in Names :
          get_index_by_name(index_by_name', n) = GreatestBelow(fonts', n, Len(fonts'))
     /\ (call'.op \in LoadOps /\ call'.ret = "Ok") =>
          /\ Len(fonts') = Len(fonts) + 1
          /\ SubSeq(fonts', 1, Len(fonts)) = fonts
          /\ fonts'[Len(fonts')].name = call'.name
     /\ (call'.op = "unload_font_by_name"
           /\ GreatestBelow(fonts, call'.name, Len(fonts)) # None) =>
          LET g == GreatestBelow(fonts, call'.name, Len(fonts))
          IN /\ fonts' = Remove(fonts, g)
             /\ get_index_by_name(index_by_name', call'.name)
                  = GreatestBelow(fonts, call'.name, g)]_vars

\* C22 witness: the last of three fonts of one name was unloaded by name and
\* the name maps to the second.
C22_Witness ==
  /\ call.op = "unload_font_by_name"
  /\ call.index = 2
  /\ Len(fonts) = 2
  /\ fonts[1].name = call.name
  /\ fonts[2].name = call.name
  /\ get_index_by_name(index_by_name, call.name) = 1

\* The whole pixels of an f32 size that is not negative, and the size (f32) a
\* measure or draw call was given.
WholePixels(z) == z \div Den
CallSize ==
  IF call.op \in {"measure_text", "measure_scaled_text"}
    THEN call.size ELSE call.params.size

\* C23: the key of every cache entry is a character with the whole pixels of
\* a size that was asked for, so a font has at most (characters) x (whole
\* sizes) entries; a measure or draw call rasterizes only at the whole pixels
\* of its size, no (font, character) twice, and after it measuring or caching
\* the same characters at any size with the same whole pixels rasterizes
\* nothing and adds no entry.
C23_KeyIsCharacterAndWholeSize ==
  LET wholes == {WholePixels(z) : z \in SizeInputs} \cup PxSizes
  IN /\ \A i \in 1..Len(fonts) :
          /\ \A key \in DOMAIN fonts[i].chars : key[1] \in Chars /\ key[2] \in wholes
          /\ Cardinality(DOMAIN fonts[i].chars)
               <= Cardinality(Chars) * Cardinality(wholes)
     /\ (call.op \in TextOps /\ call.ret = "Ok") =>
          /\ \A k \in 1..Len(rasters) :
               /\ rasters[k][3] = WholePixels(CallSize)
               /\ \A j \in 1..Len(rasters) : rasters[j] = rasters[k] => j = k
          /\ \A z \in SizeInputs :
               WholePixels(z) = WholePixels(CallSize) =>
                 LET again == MeasureLoop(LoopStart(fonts), CallChars, z)
                     cached == CacheLoop(LoopStart(fonts), Plain(CallChars),
                                         [call.params EXCEPT !.size = z])
                 IN /\ again.rasters = <<>>
                    /\ again.fonts = fonts
                    /\ cached.rasters = <<>>
                    /\ cached.fonts = fonts

\* C23 witness: a text of two characters was measured at one pixel and a half
\* and both were rasterized, at one pixel.
C23_Witness ==
  /\ call.op = "measure_text"
  /\ call.ret = "Ok"
  /\ call.size = Den + 1
  /\ rasters = <<<<0, "a", 1>>, <<0, "b", 1>>>>
  /\ DOMAIN fonts[1].chars = {<<"a", 1>>, <<"b", 1>>}

\* C24: no borrow of a call panics: no cell is borrowed mutably while another
\* borrow of it is live. The live borrows are at most two, of the two cells
\* of one font (the cache mutably with the atlas in recache_glyphs, the atlas
\* mutably with the cache read in _draw_char), and none is left when the call
\* has made all its borrows and drops.
C24_NoBorrowConflict ==
  /\ ~borrows.panic
  /\ \A j, k \in 1..Len(borrows.live) :
       (j # k /\ borrows.live[j].font = borrows.live[k].font
              /\ borrows.live[j].cell = borrows.live[k].cell) =>
         (~borrows.live[j].mut /\ ~borrows.live[k].mut)
  /\ Len(borrows.live) <= 2
  /\ Len(borrows.live) = 2 =>
       /\ borrows.live[1].font = borrows.live[2].font
       /\ borrows.live[1].cell # borrows.live[2].cell
       /\ borrows.live[1].mut
  /\ borrows.pending = <<>> => borrows.live = <<>>

\* C24 witness: recache_glyphs holds the cache of the first font mutably
\* while _cache_glyph holds its atlas mutably.
C24_Witness ==
  /\ call.op = "font_recache_glyphs"
  /\ borrows.live = <<[font |-> 0, cell |-> "chars", mut |-> TRUE],
                      [font |-> 0, cell |-> "atlas", mut |-> TRUE]>>

====
